---------------------------- MODULE Spec2Model ----------------------------
(***************************************************************************)
(* Model of the coefficient-domain JPEG transcoder (jpeg_transcoder/).     *)
(* Bytes are integers 0..255, byte strings are sequences of bytes.  Python *)
(* lists are 0-based; sequences here are 1-based, so data[i] of the source *)
(* is data[i+1] below.  An exception raised by the source is an `err`      *)
(* field (or an "eof" flag) of the value an operator returns.              *)
(***************************************************************************)
EXTENDS Integers, Sequences, FiniteSets, TLC

VARIABLES
    \* bitstream.py: one BitWriter, then one BitReader over its bytes
    bw, br, written, readBack, bpc,
    \* huffman.py: one HuffmanTable, one symbol encoded and decoded back
    hin, htable, hsym, hbytes, hdec, hpc,
    \* quantization.py / compressor.build_scaled_qtables
    qin, qquality, qscaled, qbuilt, qpc,
    \* compressor.compress: the input file and the destination path, the
    \* position in compress (pc, err) and its local variables; bw and br
    \* above are its BitWriter and BitReader
    inp, infile, quality, dest, pc, err,
    data, frame, dc_tables, ac_tables, all_syms, scaled_qtables, next_blk,
    out_chunks,
    \* rle.py: one coefficient list, its symbols and the list decoded back
    rcoeffs, rsyms, rback, rpc,
    \* zigzag.py: one block or list, the result of the first reordering and
    \* the result of the opposite reordering applied to it
    zin, zmid, zout, zpc

bitVars   == <<bw, br, written, readBack, bpc>>
huffVars  == <<hin, htable, hsym, hbytes, hdec, hpc>>
quantVars == <<qin, qquality, qscaled, qbuilt, qpc>>
pipeVars  == <<inp, infile, quality, dest, pc, err, data, frame, dc_tables,
               ac_tables, all_syms, scaled_qtables, next_blk, out_chunks>>
rleVars   == <<rcoeffs, rsyms, rback, rpc>>
zigVars   == <<zin, zmid, zout, zpc>>
vars      == <<bitVars, huffVars, quantVars, pipeVars, rleVars, zigVars>>

(***************************************************************************)
(* Bounds of the model.                                                    *)
(***************************************************************************)
MaxWrites == 3

(***************************************************************************)
(* Helpers for Python integer operators.                                   *)
(***************************************************************************)
Shl(x, k) == x * (2 ^ k)

Shr(x, k) == x \div (2 ^ k)

\* A loop of at most n iterations over the loop state st: Done is the
\* negated loop condition (or a break, or an exception) and Step is the loop
\* body.  The iterations are split in halves, and Done evaluates the state
\* the first half leaves, to keep the evaluation shallow.
RECURSIVE Iterate(_, _, _, _)
Iterate(Step(_), Done(_), st, n) ==
    IF n <= 0 \/ Done(st) THEN st
    ELSE IF n = 1 THEN Step(st)
    ELSE Iterate(Step, Done, Iterate(Step, Done, st, n \div 2), n - (n \div 2))

\* A Python list: concatenation with the empty sequence stores the elements,
\* where a function constructor alone would recompute one at every access.
List(s) == s \o <<>>

RECURSIVE BitOr(_, _)
BitOr(a, b) ==
    IF a = 0 THEN b
    ELSE IF b = 0 THEN a
    ELSE (IF a % 2 = 1 \/ b % 2 = 1 THEN 1 ELSE 0) + 2 * BitOr(a \div 2, b \div 2)

RECURSIVE bit_length(_)
bit_length(x) ==
    IF x = 0 THEN 0
    ELSE IF x < 0 THEN bit_length(0 - x)
    ELSE 1 + bit_length(x \div 2)

(***************************************************************************)
(* bitstream.py                                                            *)
(***************************************************************************)
BitReader(bytes) == [data |-> bytes, bytepos |-> 0, bitpos |-> 0]

\* read_bit without the skip of a stuffed 0x00 after a 0xFF byte.
read_bit_keeps_stuffing(r) ==
    IF r.bytepos >= Len(r.data)
    THEN [eof |-> TRUE, bit |-> 0, r |-> r]
    ELSE LET byte == r.data[r.bytepos + 1]
             bit  == Shr(byte, 7 - r.bitpos) % 2
         IN  IF r.bitpos + 1 = 8
             THEN [eof |-> FALSE, bit |-> bit,
                   r |-> [r EXCEPT !.bitpos = 0, !.bytepos = r.bytepos + 1]]
             ELSE [eof |-> FALSE, bit |-> bit,
                   r |-> [r EXCEPT !.bitpos = r.bitpos + 1]]

read_bit(r) ==
    IF r.bytepos >= Len(r.data)
    THEN [eof |-> TRUE, bit |-> 0, r |-> r]
    ELSE LET byte == r.data[r.bytepos + 1]
             bit  == Shr(byte, 7 - r.bitpos) % 2
         IN  IF r.bitpos + 1 = 8
             THEN LET bp == r.bytepos + 1
                      stuffed == /\ byte = 255
                                 /\ bp < Len(r.data)
                                 /\ r.data[bp + 1] = 0
                  IN  [eof |-> FALSE, bit |-> bit,
                       r |-> [r EXCEPT !.bitpos = 0,
                                       !.bytepos = IF stuffed THEN bp + 1 ELSE bp]]
             ELSE [eof |-> FALSE, bit |-> bit,
                   r |-> [r EXCEPT !.bitpos = r.bitpos + 1]]

RECURSIVE read_bits_loop(_, _, _)
read_bits_loop(r, n, value) ==
    IF n = 0 THEN [eof |-> FALSE, value |-> value, r |-> r]
    ELSE LET b == read_bit(r)
         IN  IF b.eof THEN [eof |-> TRUE, value |-> value, r |-> b.r]
             ELSE read_bits_loop(b.r, n - 1, Shl(value, 1) + b.bit)

read_bits(r, n) == read_bits_loop(r, n, 0)

BitWriter == [buffer |-> <<>>, curr_byte |-> 0, bitpos |-> 0]

flush_curr_byte(w) ==
    LET byte == w.curr_byte % 256
    IN  [buffer    |-> IF byte = 255 THEN w.buffer \o <<byte, 0>>
                                     ELSE Append(w.buffer, byte),
         curr_byte |-> 0,
         bitpos    |-> 0]

write_bit(w, bit) ==
    LET w1 == [w EXCEPT !.curr_byte = Shl(w.curr_byte, 1) + (bit % 2),
                        !.bitpos = w.bitpos + 1]
    IN  IF w1.bitpos = 8 THEN flush_curr_byte(w1) ELSE w1

RECURSIVE write_bits(_, _, _)
write_bits(w, n, value) ==
    IF n <= 0 THEN w
    ELSE write_bits(write_bit(w, Shr(value, n - 1) % 2), n - 1, value)

flush(w) ==
    IF w.bitpos > 0
    THEN flush_curr_byte([w EXCEPT !.curr_byte = Shl(w.curr_byte, 8 - w.bitpos)])
    ELSE w

get_bytes(w) == flush(w).buffer

(***************************************************************************)
(* Bitstream round trip: a sequence of write_bits calls, get_bytes, then   *)
(* the same widths read back with read_bits.                               *)
(***************************************************************************)
Widths == {1, 3, 8, 11}

Values(n) == {0, 1 % (2 ^ n), 5 % (2 ^ n), (2 ^ n) - 2, (2 ^ n) - 1}

WriteBits ==
    /\ bpc = "writing"
    /\ Len(written) < MaxWrites
    /\ \E n \in Widths : \E v \in Values(n) :
          /\ bw' = write_bits(bw, n, v)
          /\ written' = Append(written, <<n, v>>)
    /\ UNCHANGED <<br, readBack, bpc>>
    /\ UNCHANGED <<huffVars, quantVars, pipeVars, rleVars, zigVars>>

GetBytes ==
    /\ bpc = "writing"
    /\ Len(written) > 0
    /\ bw' = flush(bw)
    /\ br' = BitReader(get_bytes(bw))
    /\ bpc' = "reading"
    /\ UNCHANGED <<written, readBack>>
    /\ UNCHANGED <<huffVars, quantVars, pipeVars, rleVars, zigVars>>

ReadBits ==
    /\ bpc = "reading"
    /\ Len(readBack) < Len(written)
    /\ LET n == written[Len(readBack) + 1][1]
           res == read_bits(br, n)
       IN  /\ br' = res.r
           /\ IF res.eof
              THEN /\ bpc' = "eof"
                   /\ readBack' = readBack
              ELSE /\ bpc' = bpc
                   /\ readBack' = Append(readBack, res.value)
    /\ UNCHANGED <<bw, written>>
    /\ UNCHANGED <<huffVars, quantVars, pipeVars, rleVars, zigVars>>

NextBits ==
    \/ WriteBits
    \/ GetBytes
    \/ ReadBits

(***************************************************************************)
(* huffman.py: HuffmanTable                                                *)
(***************************************************************************)
EmptyTable == [codes |-> <<>>, decode_map |-> <<>>, code |-> 0, p |-> 0, err |-> FALSE]

RECURSIVE ht_assign(_, _, _, _)
ht_assign(t, symbols, bitlen, count) ==
    IF count = 0 \/ t.err THEN t
    ELSE IF t.p >= Len(symbols) THEN [t EXCEPT !.err = TRUE]
    ELSE LET sym == symbols[t.p + 1]
         IN  ht_assign([codes      |-> (sym :> <<t.code, bitlen>>) @@ t.codes,
                        decode_map |-> (Shl(t.code, 16 - bitlen) :> <<sym, bitlen>>)
                                           @@ t.decode_map,
                        code       |-> t.code + 1,
                        p          |-> t.p + 1,
                        err        |-> FALSE],
                       symbols, bitlen, count - 1)

\* ht_lengths without `code <<= 1`: the code value is carried on unshifted
\* to the next length.
RECURSIVE ht_lengths_no_shift(_, _, _, _)
ht_lengths_no_shift(t, lengths, symbols, bitlen) ==
    IF bitlen > Len(lengths) \/ t.err THEN t
    ELSE ht_lengths_no_shift(ht_assign(t, symbols, bitlen, lengths[bitlen]),
                             lengths, symbols, bitlen + 1)

RECURSIVE ht_lengths(_, _, _, _)
ht_lengths(t, lengths, symbols, bitlen) ==
    IF bitlen > Len(lengths) \/ t.err THEN t
    ELSE LET t1 == ht_assign(t, symbols, bitlen, lengths[bitlen])
         IN  ht_lengths([t1 EXCEPT !.code = Shl(t1.code, 1)],
                        lengths, symbols, bitlen + 1)

HuffmanTable(lengths, symbols) == ht_lengths(EmptyTable, lengths, symbols, 1)

encode(t, symbol) ==
    IF symbol \in DOMAIN t.codes
    THEN [err |-> "", code |-> t.codes[symbol][1], length |-> t.codes[symbol][2]]
    ELSE [err |-> "KeyError", code |-> 0, length |-> 0]

RECURSIVE decode_loop(_, _, _, _)
decode_loop(t, r, code, length) ==
    IF length > 16 THEN [err |-> "ValueError", sym |-> 0, r |-> r]
    ELSE LET b == read_bit(r)
         IN  IF b.eof THEN [err |-> "EOFError", sym |-> 0, r |-> b.r]
             ELSE LET c      == Shl(code, 1) + b.bit
                      lookup == Shl(c, 16 - length)
                  IN  IF lookup \in DOMAIN t.decode_map
                      THEN [err |-> "", sym |-> t.decode_map[lookup][1], r |-> b.r]
                      ELSE decode_loop(t, b.r, c, length + 1)

\* decode that reports the end of the data as an invalid code.
decode_eof_invalid(t, r) ==
    LET d == decode_loop(t, r, 0, 1)
    IN  IF d.err = "EOFError" THEN [d EXCEPT !.err = "ValueError"] ELSE d

decode(t, r) == decode_loop(t, r, 0, 1)

(***************************************************************************)
(* Huffman round trip: a table is built from a valid (lengths, symbols)    *)
(* pair, one of its symbols is encoded into a BitWriter and decoded back   *)
(* from a BitReader over the bytes.                                        *)
(***************************************************************************)
MaxCodeLen == 3

SymbolAt(k) == ((k - 1) * 17) % 256

RECURSIVE SumCounts(_, _)
SumCounts(c, n) == IF n = 0 THEN 0 ELSE c[n] + SumCounts(c, n - 1)

RECURSIVE KraftSum(_, _)
KraftSum(c, n) == IF n = 0 THEN 0 ELSE c[n] * (2 ^ (MaxCodeLen - n)) + KraftSum(c, n - 1)

ValidCounts ==
    {c \in [1..MaxCodeLen -> 0..(2 ^ MaxCodeLen)] :
        /\ SumCounts(c, MaxCodeLen) >= 1
        /\ KraftSum(c, MaxCodeLen) <= 2 ^ MaxCodeLen}

Lengths16(c) == [L \in 1..16 |-> IF L <= MaxCodeLen THEN c[L] ELSE 0]

SymbolLists(n) ==
    {[k \in 1..n |-> SymbolAt(k)], [k \in 1..n |-> SymbolAt(n + 1 - k)]}

ValidTableInputs ==
    UNION {{[lengths |-> Lengths16(c), symbols |-> s] :
               s \in SymbolLists(SumCounts(c, MaxCodeLen))} : c \in ValidCounts}

\* Any counts of codes of the lengths 1..MaxCodeLen, whether or not that
\* many codes of a length exist, and counts of single codes of short and
\* long lengths.
MaxCount == 3

AnyCounts ==
    {c \in [1..MaxCodeLen -> 0..MaxCount] : SumCounts(c, MaxCodeLen) >= 1}

SpreadLengths ==
    {List([L \in 1..16 |-> IF L \in S THEN 1 ELSE 0]) :
        S \in (SUBSET {1, 2, 9, 16}) \ {{}}}

AnyTableInputs ==
    UNION {{[lengths |-> Lengths16(c), symbols |-> s] :
               s \in SymbolLists(SumCounts(c, MaxCodeLen))} : c \in AnyCounts}
    \cup UNION {{[lengths |-> l, symbols |-> s] :
                    s \in SymbolLists(SumCounts(l, 16))} : l \in SpreadLengths}

NoDecode == [err |-> "", sym |-> 0, r |-> BitReader(<<>>)]

Construct ==
    /\ hpc = "input"
    /\ htable' = HuffmanTable(hin.lengths, hin.symbols)
    /\ hpc' = "built"
    /\ UNCHANGED <<hin, hsym, hbytes, hdec>>
    /\ UNCHANGED <<bitVars, quantVars, pipeVars, rleVars, zigVars>>

EncodeSymbol ==
    /\ hpc = "built"
    /\ \E s \in DOMAIN htable.codes :
          LET e == encode(htable, s)
          IN  /\ hsym' = s
              /\ hbytes' = get_bytes(write_bits(BitWriter, e.length, e.code))
    /\ hpc' = "encoded"
    /\ UNCHANGED <<hin, htable, hdec>>
    /\ UNCHANGED <<bitVars, quantVars, pipeVars, rleVars, zigVars>>

DecodeSymbol ==
    /\ hpc = "encoded"
    /\ hdec' = decode(htable, BitReader(hbytes))
    /\ hpc' = "decoded"
    /\ UNCHANGED <<hin, htable, hsym, hbytes>>
    /\ UNCHANGED <<bitVars, quantVars, pipeVars, rleVars, zigVars>>

NextHuff ==
    \/ Construct
    \/ EncodeSymbol
    \/ DecodeSymbol

(***************************************************************************)
(* utils.py / zigzag.py                                                    *)
(***************************************************************************)
ZIGZAG_ORDER ==
    << 0,  1,  5,  6, 14, 15, 27, 28,
       2,  4,  7, 13, 16, 26, 29, 42,
       3,  8, 12, 17, 25, 30, 41, 43,
       9, 11, 18, 24, 31, 40, 44, 53,
      10, 19, 23, 32, 39, 45, 52, 54,
      20, 22, 33, 38, 46, 51, 55, 60,
      21, 34, 37, 47, 50, 56, 59, 61,
      35, 36, 48, 49, 57, 58, 62, 63 >>

\* flat[idx] = arr[i] for i, idx in enumerate(ZIGZAG_ORDER), over flat = [0]*64:
\* the last i with ZIGZAG_ORDER[i] = idx wins, an idx never named stays 0.
ZigzagLastWriter ==
    [k \in 1..64 |->
        LET hits == {i \in 1..64 : ZIGZAG_ORDER[i] = k - 1}
        IN  IF hits = {} THEN 0
            ELSE CHOOSE i \in hits : \A j \in hits : j <= i]

\* No input chosen, no result computed.
NoZigzagInput == [kind |-> "none", val |-> <<>>]

NoZigzag == [err |-> "", val |-> <<>>]

\* inverse_zigzag that reads arr through the table (flat[i] = arr[idx])
\* where the source writes through it (flat[idx] = arr[i]).
inverse_zigzag_gather(arr) ==
    List([k \in 1..64 |-> arr[ZIGZAG_ORDER[k] + 1]])

inverse_zigzag_flat(arr) ==
    List([k \in 1..64 |-> IF ZigzagLastWriter[k] = 0 THEN 0 ELSE arr[ZigzagLastWriter[k]]])

inverse_zigzag_raises(arr) == Len(arr) # 64

inverse_zigzag(arr) ==
    LET flat == inverse_zigzag_flat(arr)
    IN  List([r \in 1..8 |-> List([c \in 1..8 |-> flat[(r - 1) * 8 + c]])])

zigzag_order_raises(block) ==
    Len(block) # 8 \/ \E r \in 1..Len(block) : Len(block[r]) # 8

zigzag_order(block) ==
    LET flat == List([k \in 1..64 |-> block[((k - 1) \div 8) + 1][((k - 1) % 8) + 1]])
    IN  List([k \in 1..64 |-> flat[ZIGZAG_ORDER[k] + 1]])

(***************************************************************************)
(* Zigzag inverse law: zigzag_order is called on a block and               *)
(* inverse_zigzag on its result, or inverse_zigzag on a list and           *)
(* zigzag_order on its result; a call that raises ends the run.            *)
(***************************************************************************)
zigzag_order_call(block) ==
    IF zigzag_order_raises(block) THEN [err |-> "ValueError", val |-> <<>>]
    ELSE [err |-> "", val |-> zigzag_order(block)]

inverse_zigzag_call(arr) ==
    IF inverse_zigzag_raises(arr) THEN [err |-> "ValueError", val |-> <<>>]
    ELSE [err |-> "", val |-> inverse_zigzag(arr)]

ZigSlopes == {0, 1, 0 - 3, 7, 64}

ZigOffsets == {0, 100, 0 - 2000}

ZigSizes == {7, 8, 9}

\* A rows x cols matrix whose cells are a * (row-major index) + b.
ZigBlock(rows, cols, a, b) ==
    List([rw \in 1..rows |->
        List([cl \in 1..cols |-> a * ((rw - 1) * cols + cl - 1) + b])])

ZigList(n, a, b) == List([k \in 1..n |-> a * (k - 1) + b])

\* An 8-row matrix whose row `short` has 7 cells.
RaggedBlock(short, a, b) ==
    List([rw \in 1..8 |->
        List([cl \in 1..(IF rw = short THEN 7 ELSE 8) |-> a * ((rw - 1) * 8 + cl - 1) + b])])

ZigInputs ==
    {[kind |-> "block", val |-> ZigBlock(rows, cols, a, b)] :
        rows \in ZigSizes, cols \in ZigSizes, a \in ZigSlopes, b \in ZigOffsets}
    \cup {[kind |-> "block", val |-> RaggedBlock(short, 1, b)] :
              short \in {1, 4, 8}, b \in ZigOffsets}
    \cup {[kind |-> "list", val |-> ZigList(n, a, b)] :
              n \in {0, 63, 64, 65}, a \in ZigSlopes, b \in ZigOffsets}

ZigzagOrderFirst ==
    /\ zpc = "input"
    /\ zin.kind = "block"
    /\ zmid' = zigzag_order_call(zin.val)
    /\ zpc' = "first"
    /\ UNCHANGED <<zin, zout>>
    /\ UNCHANGED <<bitVars, huffVars, quantVars, pipeVars, rleVars>>

InverseZigzagFirst ==
    /\ zpc = "input"
    /\ zin.kind = "list"
    /\ zmid' = inverse_zigzag_call(zin.val)
    /\ zpc' = "first"
    /\ UNCHANGED <<zin, zout>>
    /\ UNCHANGED <<bitVars, huffVars, quantVars, pipeVars, rleVars>>

InverseZigzagSecond ==
    /\ zpc = "first"
    /\ zin.kind = "block"
    /\ zmid.err = ""
    /\ zout' = inverse_zigzag_call(zmid.val)
    /\ zpc' = "second"
    /\ UNCHANGED <<zin, zmid>>
    /\ UNCHANGED <<bitVars, huffVars, quantVars, pipeVars, rleVars>>

ZigzagOrderSecond ==
    /\ zpc = "first"
    /\ zin.kind = "list"
    /\ zmid.err = ""
    /\ zout' = zigzag_order_call(zmid.val)
    /\ zpc' = "second"
    /\ UNCHANGED <<zin, zmid>>
    /\ UNCHANGED <<bitVars, huffVars, quantVars, pipeVars, rleVars>>

NextZigzag ==
    \/ ZigzagOrderFirst
    \/ InverseZigzagFirst
    \/ InverseZigzagSecond
    \/ ZigzagOrderSecond

(***************************************************************************)
(* quantization.py: scale_table, and compressor.py: build_scaled_qtables   *)
(***************************************************************************)
\* int(num / den) of Python for integers num, den # 0: the quotient
\* truncated toward zero.
IntOfQuotient(num, den) ==
    LET an == IF num < 0 THEN 0 - num ELSE num
        ad == IF den < 0 THEN 0 - den ELSE den
        m  == an \div ad
    IN  IF (num < 0) = (den < 0) THEN m ELSE 0 - m

Max2(a, b) == IF a >= b THEN a ELSE b

Min2(a, b) == IF a <= b THEN a ELSE b

\* int((v * factor + 50) / 100) with factor = 5000 / quality when
\* quality < 50 (a true division: (5000 v + 50 quality) / (100 quality))
\* and factor = 200 - 2 * quality otherwise.  quality # 0.
scaled_value(v, qual) ==
    IF qual < 50
    THEN IntOfQuotient(5000 * v + 50 * qual, 100 * qual)
    ELSE IntOfQuotient(v * (200 - qual * 2) + 50, 100)

\* scale_table with the upper clamp at 254 instead of 255.
scale_table_clamp254(table, qual) ==
    LET q1 == IF qual < 1 THEN 1 ELSE qual
        q2 == IF q1 > 100 THEN 100 ELSE q1
    IN  List([r \in 1..Len(table) |->
            List([c \in 1..Len(table[r]) |->
                Max2(1, Min2(scaled_value(table[r][c], q2), 254))])])

scale_table(table, qual) ==
    LET q1 == IF qual < 1 THEN 1 ELSE qual
        q2 == IF q1 > 100 THEN 100 ELSE q1
    IN  List([r \in 1..Len(table) |->
            List([c \in 1..Len(table[r]) |->
                Max2(1, Min2(scaled_value(table[r][c], q2), 255))])])

\* A Python dict: its keys in insertion order and its values.
EmptyDict == [keys |-> <<>>, val |-> <<>>]

DictHas(d, k) == \E i \in 1..Len(d.keys) : d.keys[i] = k

DictSet(d, k, v) ==
    [keys |-> IF DictHas(d, k) THEN d.keys ELSE Append(d.keys, k),
     val  |-> (k :> v) @@ d.val]

RECURSIVE build_scaled_loop(_, _, _, _)
build_scaled_loop(orig, qual, i, scaled) ==
    IF i > Len(orig.keys) THEN [err |-> "", tables |-> scaled]
    ELSE LET tid  == orig.keys[i]
             flat == orig.val[tid]
         IN  IF inverse_zigzag_raises(flat)
             THEN [err |-> "ValueError", tables |-> scaled]
             ELSE IF qual = 0
             THEN [err |-> "ZeroDivisionError", tables |-> scaled]
             ELSE LET mat == inverse_zigzag(flat)
                      new_mat == List([r \in 1..8 |-> List([c \in 1..8 |->
                          Max2(1, Min2(255, scaled_value(mat[r][c], qual)))])])
                  IN  build_scaled_loop(orig, qual, i + 1,
                                        DictSet(scaled, tid, new_mat))

build_scaled_qtables(orig_qtables_flat, qual) ==
    build_scaled_loop(orig_qtables_flat, qual, 1, EmptyDict)

(***************************************************************************)
(* Quality scaling: one quantization table (64 entries in zigzag order,    *)
(* each 1..255) and one quality; scale_table is applied to its matrix and  *)
(* build_scaled_qtables to the table stored under id 0.                    *)
(***************************************************************************)
Qualities == {0 - 3, 0, 1, 2, 25, 49, 50, 75, 100, 101, 150}

TableSteps == {0, 1, 37}

QTable(base, step) == List([i \in 1..64 |-> ((base - 1 + (i - 1) * step) % 255) + 1])

QTableInputs == {QTable(base, step) : base \in 1..255, step \in TableSteps}

NoBuilt == [err |-> "", tables |-> EmptyDict]

ScaleTable ==
    /\ "input" \in qpc
    /\ "scale_table" \notin qpc
    /\ qscaled' = scale_table(inverse_zigzag(qin), qquality)
    /\ qpc' = qpc \cup {"scale_table"}
    /\ UNCHANGED <<qin, qquality, qbuilt>>
    /\ UNCHANGED <<bitVars, huffVars, pipeVars, rleVars, zigVars>>

BuildScaledQtables ==
    /\ "input" \in qpc
    /\ "build_scaled_qtables" \notin qpc
    /\ qbuilt' = build_scaled_qtables(DictSet(EmptyDict, 0, qin), qquality)
    /\ qpc' = qpc \cup {"build_scaled_qtables"}
    /\ UNCHANGED <<qin, qquality, qscaled>>
    /\ UNCHANGED <<bitVars, huffVars, pipeVars, rleVars, zigVars>>

NextQuant ==
    \/ ScaleTable
    \/ BuildScaledQtables

(***************************************************************************)
(* utils.py: marker codes                                                  *)
(***************************************************************************)
SOI == 216

EOI == 217

APP0 == 224

DQT == 219

SOF0 == 192

DHT == 196

SOS == 218

(***************************************************************************)
(* io_1.py: parse_jpeg                                                     *)
(***************************************************************************)
\* s[a:b] of Python for 0 <= a.
Slice(s, a, b) ==
    LET e == Min2(b, Len(s))
    IN  IF a >= e THEN <<>> ELSE SubSeq(s, a + 1, e)

RECURSIVE parse_dqt(_, _, _)
parse_dqt(payload, i, qt) ==
    IF i >= Len(payload) THEN [err |-> "", tables |-> qt]
    ELSE LET pq_tq == payload[i + 1]
             pq    == Shr(pq_tq, 4)
             tq    == pq_tq % 16
             count == 64 * (IF pq # 0 THEN 2 ELSE 1)
             raw   == Slice(payload, i + 1, i + 1 + count)
         IN  IF pq # 0 /\ Len(raw) < count
             THEN [err |-> "IndexError", tables |-> qt]
             ELSE LET table == IF pq # 0
                               THEN List([j \in 1..64 |-> raw[2 * j - 1] * 256 + raw[2 * j]])
                               ELSE raw
                  IN  parse_dqt(payload, i + 1 + count, DictSet(qt, tq, table))

\* frame_header and scan_header are None (<<>>) or a payload p (<<p>>).
ParseStart ==
    [ptr |-> 2, err |-> "", halt |-> FALSE, segments |-> <<>>,
     quant_tables |-> EmptyDict,
     huff_tables |-> <<>>, frame_header |-> <<>>, scan_header |-> <<>>,
     scan_data |-> <<>>]

\* The body of `while ptr < len(data)`; halt is set by the break at
\* end-of-image and by an exception.
parse_step(bytes, st) ==
         LET byte == bytes[st.ptr + 1]
         IN
         IF byte # 255
         THEN [st EXCEPT !.scan_data = Append(@, byte), !.ptr = @ + 1]
         ELSE IF st.ptr + 1 >= Len(bytes)
         THEN [st EXCEPT !.err = "IndexError", !.halt = TRUE]
         ELSE LET marker == bytes[st.ptr + 2]
                  ptr1   == st.ptr + 2
              IN
              IF marker = EOI
              THEN [st EXCEPT !.segments = Append(@, [m |-> marker, p |-> <<>>]),
                              !.ptr = ptr1, !.halt = TRUE]
              ELSE IF ptr1 + 2 > Len(bytes)
              THEN [st EXCEPT !.err = "struct.error", !.halt = TRUE]
              ELSE LET length  == bytes[ptr1 + 1] * 256 + bytes[ptr1 + 2]
                       ptr2    == ptr1 + 2
                       payload == Slice(bytes, ptr2, ptr2 + length - 2)
                       st1     == [st EXCEPT
                                      !.segments = Append(@, [m |-> marker, p |-> payload]),
                                      !.ptr = ptr2 + length - 2]
                   IN
                   IF marker = DQT
                   THEN LET d == parse_dqt(payload, 0, st.quant_tables)
                        IN  IF d.err # "" THEN [st1 EXCEPT !.err = d.err, !.halt = TRUE]
                            ELSE [st1 EXCEPT !.quant_tables = d.tables]
                   ELSE IF marker = DHT
                   THEN [st1 EXCEPT !.huff_tables = Append(@, payload)]
                   ELSE IF marker = SOF0
                   THEN [st1 EXCEPT !.frame_header = <<payload>>]
                   ELSE IF marker = SOS
                   THEN [st1 EXCEPT !.scan_header = <<payload>>]
                   ELSE st1

\* Every iteration moves ptr forward by at least one byte.
parse_loop(bytes, st) ==
    LET Step(x) == parse_step(bytes, x)
        Done(x) == x.halt \/ x.ptr >= Len(bytes)
    IN  Iterate(Step, Done, st, Len(bytes))

parse_jpeg(bytes) ==
    IF Slice(bytes, 0, 2) # <<255, SOI>>
    THEN [ParseStart EXCEPT !.err = "AssertionError", !.halt = TRUE]
    ELSE parse_loop(bytes, ParseStart)

(***************************************************************************)
(* huffman.py: parse_dht, encode_coefficient, encode_symbols,              *)
(* decode_symbols.  A symbol is a record with a tag: DC(val), EOB, ZRL or  *)
(* AC(run, size, amp), for the tuples ("DC", v), ("EOB", 0), ("ZRL", 0)    *)
(* and (run, size, amp) of the source.                                     *)
(***************************************************************************)
RECURSIVE SumSeq(_)
SumSeq(q) == IF q = <<>> THEN 0 ELSE Head(q) + SumSeq(Tail(q))

RECURSIVE parse_dht_loop(_, _, _, _)
parse_dht_loop(payload, i, dc, ac) ==
    IF i >= Len(payload) THEN [err |-> "", dc |-> dc, ac |-> ac]
    ELSE LET tc_th       == payload[i + 1]
             table_class == Shr(tc_th, 4)
             table_id    == tc_th % 16
             lengths     == Slice(payload, i + 1, i + 17)
             total_syms  == SumSeq(lengths)
             symbols     == Slice(payload, i + 17, i + 17 + total_syms)
             table       == HuffmanTable(lengths, symbols)
         IN  IF table.err THEN [err |-> "IndexError", dc |-> dc, ac |-> ac]
             ELSE IF table_class = 0
             THEN parse_dht_loop(payload, i + 17 + total_syms,
                                 (table_id :> table) @@ dc, ac)
             ELSE parse_dht_loop(payload, i + 17 + total_syms,
                                 dc, (table_id :> table) @@ ac)

parse_dht(payload) == parse_dht_loop(payload, 0, <<>>, <<>>)

DCSym(v) == [tag |-> "DC", val |-> v]

EOBSym == [tag |-> "EOB", val |-> 0]

ZRLSym == [tag |-> "ZRL", val |-> 0]

ACSym(run, size, amp) == [tag |-> "AC", run |-> run, size |-> size, amp |-> amp]

\* The amplitude of `size` freshly read bits.
amplitude_of(bits, size) ==
    IF bits < 2 ^ (size - 1) THEN bits - ((2 ^ size) - 1) ELSE bits

\* The body of `while count < 64` of decode_symbols; halt is set by the
\* break at end-of-block and by an exception.
decode_symbols_step(ac_table, st) ==
         LET d == decode(ac_table, st.r)
         IN
         IF d.err # "" THEN [st EXCEPT !.err = d.err, !.r = d.r, !.halt = TRUE]
         ELSE IF d.sym = 0
         THEN [st EXCEPT !.symbols = Append(@, EOBSym), !.r = d.r, !.halt = TRUE]
         ELSE IF d.sym = 240
         THEN [st EXCEPT !.symbols = Append(@, ZRLSym), !.r = d.r, !.count = @ + 16]
         ELSE LET run  == Shr(d.sym, 4)
                  size == d.sym % 16
              IN  IF size > 0
                  THEN LET b == read_bits(d.r, size)
                       IN  IF b.eof
                           THEN [st EXCEPT !.err = "EOFError", !.r = b.r, !.halt = TRUE]
                           ELSE [st EXCEPT
                                    !.symbols = Append(@, ACSym(run, size,
                                                    amplitude_of(b.value, size))),
                                    !.r = b.r,
                                    !.count = @ + run + 1]
                  ELSE [st EXCEPT !.symbols = Append(@, ACSym(run, size, 0)),
                                  !.r = d.r,
                                  !.count = @ + run + 1]

\* count starts at 1 and grows in every iteration: at most 63 iterations.
decode_ac_symbols(r, ac_table, symbols) ==
    LET Step(x) == decode_symbols_step(ac_table, x)
        Done(x) == x.halt \/ x.count >= 64
        st == Iterate(Step, Done, [err |-> "", symbols |-> symbols, r |-> r,
                                   count |-> 1, halt |-> FALSE], 63)
    IN  [err |-> st.err, symbols |-> st.symbols, r |-> st.r]

decode_symbols(r, dc_table, ac_table) ==
    LET d == decode(dc_table, r)
    IN  IF d.err # "" THEN [err |-> d.err, symbols |-> <<>>, r |-> d.r]
        ELSE IF d.sym > 0
        THEN LET b == read_bits(d.r, d.sym)
             IN  IF b.eof THEN [err |-> "EOFError", symbols |-> <<>>, r |-> b.r]
                 ELSE decode_ac_symbols(b.r, ac_table,
                                        <<DCSym(amplitude_of(b.value, d.sym))>>)
        ELSE decode_ac_symbols(d.r, ac_table, <<DCSym(0)>>)

encode_coefficient(value, w) ==
    IF value = 0 THEN w
    ELSE LET size == bit_length(value)
         IN  IF value < 0 THEN write_bits(w, size, (2 ^ size) + value - 1)
             ELSE write_bits(w, size, value)

\* The body of `for sym in symbols[1:]` of encode_symbols; halt is set by
\* the break after end-of-block and by an exception.
encode_symbols_step(symbols, ac_table, st) ==
         LET sym == symbols[st.i]
             tag_byte == IF sym.tag = "ZRL" THEN 240
                         ELSE IF sym.tag = "EOB" THEN 0
                         ELSE BitOr(Shl(sym.run, 4), sym.size)
             e == encode(ac_table, tag_byte)
         IN  IF e.err # "" THEN [st EXCEPT !.err = e.err, !.halt = TRUE]
             ELSE LET w1 == write_bits(st.w, e.length, e.code)
                  IN  IF sym.tag = "EOB" THEN [st EXCEPT !.w = w1, !.halt = TRUE]
                      ELSE IF sym.tag = "ZRL" THEN [st EXCEPT !.w = w1, !.i = @ + 1]
                      ELSE [st EXCEPT !.w = encode_coefficient(sym.amp, w1),
                                      !.i = @ + 1]

encode_ac_symbols(symbols, ac_table, w) ==
    LET Step(x) == encode_symbols_step(symbols, ac_table, x)
        Done(x) == x.halt \/ x.i > Len(symbols)
        st == Iterate(Step, Done, [i |-> 2, w |-> w, err |-> "", halt |-> FALSE],
                      Len(symbols) - 1)
    IN  [err |-> st.err, w |-> st.w]

encode_symbols(symbols, dc_table, ac_table, w) ==
    IF symbols[1].tag # "DC" THEN [err |-> "AssertionError", w |-> w]
    ELSE LET dc_val    == symbols[1].val
             prev_size == IF dc_val # 0 THEN bit_length(dc_val) ELSE 0
             e         == encode(dc_table, prev_size)
         IN  IF e.err # "" THEN [err |-> e.err, w |-> w]
             ELSE encode_ac_symbols(symbols, ac_table,
                      encode_coefficient(dc_val, write_bits(w, e.length, e.code)))

(***************************************************************************)
(* rle.py: encode_ac, decode_ac                                            *)
(***************************************************************************)
\* emit_zrl that writes one zero-run marker for a run above 15, however
\* long, and starts the run again at 0.
emit_zrl_once(out, run) ==
    IF run > 15 THEN [out |-> Append(out, ZRLSym), run |-> 0]
    ELSE [out |-> out, run |-> run]

\* The loop `while run > 15` of encode_ac.
RECURSIVE emit_zrl(_, _)
emit_zrl(out, run) ==
    IF run > 15 THEN emit_zrl(Append(out, ZRLSym), run - 16)
    ELSE [out |-> out, run |-> run]

\* The body of `for c in coeffs[1:]` of encode_ac.
encode_ac_step(coeffs, st) ==
    LET c == coeffs[st.i]
    IN  IF c = 0 THEN [st EXCEPT !.i = @ + 1, !.run = @ + 1]
        ELSE LET z == emit_zrl(st.out, st.run)
             IN  [i   |-> st.i + 1,
                  run |-> 0,
                  out |-> Append(z.out, ACSym(z.run, bit_length(c), c))]

encode_ac_raises(coeffs) == Len(coeffs) # 64

encode_ac(coeffs) ==
    LET Step(x) == encode_ac_step(coeffs, x)
        Done(x) == x.i > Len(coeffs)
        st == Iterate(Step, Done, [i |-> 2, run |-> 0, out |-> <<DCSym(coeffs[1])>>],
                      Len(coeffs) - 1)
    IN  IF st.run > 0 THEN Append(st.out, EOBSym) ELSE st.out

\* The body of `for sym in symbols[1:]` of decode_ac; halt is set by the
\* break at end-of-block.  The zeros the source writes are the zeros coeffs
\* starts with.
decode_ac_step(symbols, st) ==
         LET sym == symbols[st.i]
         IN  IF sym.tag = "ZRL"
             THEN [st EXCEPT !.i = @ + 1, !.idx = Min2(@ + 16, 64)]
             ELSE IF sym.tag = "EOB" THEN [st EXCEPT !.halt = TRUE]
             ELSE LET at == Min2(st.idx + sym.run, 64)
                  IN  IF at < 64
                      THEN [st EXCEPT !.i = @ + 1, !.idx = at + 1,
                                      !.coeffs = [@ EXCEPT ![at + 1] = sym.amp]]
                      ELSE [st EXCEPT !.i = @ + 1, !.idx = at]

decode_ac_raises(symbols) == symbols[1].tag # "DC"

decode_ac(symbols) ==
    LET Step(x) == decode_ac_step(symbols, x)
        Done(x) == x.halt \/ x.i > Len(symbols)
        st == Iterate(Step, Done,
                      [i |-> 2, idx |-> 1, halt |-> FALSE,
                       coeffs |-> List([k \in 1..64 |-> IF k = 1 THEN symbols[1].val ELSE 0])],
                      Len(symbols) - 1)
    IN  st.coeffs

(***************************************************************************)
(* RLE round trip: a list of 64 coefficients is encoded with encode_ac and *)
(* the symbols are decoded with decode_ac.                                 *)
(***************************************************************************)
\* Places (1-based) of the nonzero AC coefficients: they leave zero runs of
\* 0, 14, 15, 16, 32 and more zeros, and a last coefficient that is nonzero.
RlePositions == {2, 3, 18, 19, 35, 52, 64}

RleAmplitudes == {0 - 1024, 0 - 3, 1, 255}

RleDcValues == {0, 0 - 2, 5}

\* The all-zero list and the lists with one amplitude at some of the places.
SparseCoeffs ==
    {List([k \in 1..64 |-> IF k = 1 THEN dc ELSE IF k \in nz THEN v ELSE 0]) :
        dc \in RleDcValues, nz \in SUBSET RlePositions, v \in RleAmplitudes}

\* Lists without a zero, but for the coefficients at the places of `holes`.
DenseCoeffs ==
    {List([k \in 1..64 |-> IF k \in holes THEN 0
                            ELSE IF k % 2 = 0 THEN v ELSE 0 - v]) :
        holes \in {{}, {1}, {64}, {33}, {2, 3}}, v \in RleAmplitudes}

RleInputs == SparseCoeffs \cup DenseCoeffs

EncodeAc ==
    /\ rpc = "input"
    /\ ~encode_ac_raises(rcoeffs)
    /\ rsyms' = encode_ac(rcoeffs)
    /\ rpc' = "encoded"
    /\ UNCHANGED <<rcoeffs, rback>>
    /\ UNCHANGED <<bitVars, huffVars, quantVars, pipeVars, zigVars>>

DecodeAc ==
    /\ rpc = "encoded"
    /\ ~decode_ac_raises(rsyms)
    /\ rback' = decode_ac(rsyms)
    /\ rpc' = "decoded"
    /\ UNCHANGED <<rcoeffs, rsyms>>
    /\ UNCHANGED <<bitVars, huffVars, quantVars, pipeVars, zigVars>>

NextRle ==
    \/ EncodeAc
    \/ DecodeAc

(***************************************************************************)
(* quantization.py: quantize_block, dequantize_block                       *)
(***************************************************************************)
\* int(round(num / den)) of Python 3 for den > 0: the nearest integer, a
\* tie going to the even one.
RoundQuotient(num, den) ==
    LET an == IF num < 0 THEN 0 - num ELSE num
        q  == an \div den
        r  == an % den
        m  == IF 2 * r < den THEN q
              ELSE IF 2 * r > den THEN q + 1
              ELSE IF q % 2 = 0 THEN q ELSE q + 1
    IN  IF num < 0 THEN 0 - m ELSE m

quantize_block(block, q_table) ==
    List([i \in 1..8 |-> List([j \in 1..8 |-> RoundQuotient(block[i][j], q_table[i][j])])])

dequantize_block(q_block, q_table) ==
    List([i \in 1..8 |-> List([j \in 1..8 |-> q_block[i][j] * q_table[i][j]])])

(***************************************************************************)
(* compressor.py: rebuild_dqt_payload, build_segment, rebuild_jpeg         *)
(***************************************************************************)
RECURSIVE rebuild_dqt_loop(_, _)
rebuild_dqt_loop(scaled, i) ==
    IF i > Len(scaled.keys) THEN <<>>
    ELSE LET tid == scaled.keys[i]
         IN  <<tid % 16>> \o zigzag_order(scaled.val[tid])
                 \o rebuild_dqt_loop(scaled, i + 1)

rebuild_dqt_payload(scaled) == rebuild_dqt_loop(scaled, 1)

\* Payloads of the model are far shorter than the 65533 bytes above which
\* struct.pack(">H", length) raises.
build_segment(marker, payload) ==
    LET length == Len(payload) + 2
    IN  <<255, marker, length \div 256, length % 256>> \o payload

RECURSIVE build_segments(_)
build_segments(segs) ==
    IF segs = <<>> THEN <<>>
    ELSE <<build_segment(Head(segs).m, Head(segs).p)>> \o build_segments(Tail(segs))

\* rebuild_jpeg with its steps 4 and 5 exchanged: the Huffman tables are
\* written before the frame header.
rebuild_jpeg_dht_first(segs, frame_marker, frame_payload, scan_payload, scaled, new_scan) ==
    LET IsAppCom(x) == (APP0 <= x.m /\ x.m <= 239) \/ x.m = 254
        IsDht(x)    == x.m = DHT
        IsOther(x)  == x.m < SOS /\ x.m \notin {SOI, APP0, DQT, frame_marker, DHT}
        before == <<<<255, SOI>>>>
                  \o build_segments(SelectSeq(segs, IsAppCom))
                  \o <<build_segment(DQT, rebuild_dqt_payload(scaled))>>
                  \o build_segments(SelectSeq(segs, IsDht))
                  \o <<build_segment(frame_marker, frame_payload)>>
                  \o build_segments(SelectSeq(segs, IsOther))
    IN  IF scan_payload = <<>>
        THEN [err |-> "TypeError", chunks |-> before]
        ELSE [err |-> "",
              chunks |-> before \o <<build_segment(SOS, scan_payload[1]),
                                     new_scan,
                                     <<255, EOI>>>>]

\* The sequence of byte strings handed to out.write, in order, and the
\* error that ended the writing, if any.  scan_payload is None (<<>>) or
\* <<payload>>.
rebuild_jpeg(segs, frame_marker, frame_payload, scan_payload, scaled, new_scan) ==
    LET IsAppCom(x) == (APP0 <= x.m /\ x.m <= 239) \/ x.m = 254
        IsDht(x)    == x.m = DHT
        IsOther(x)  == x.m < SOS /\ x.m \notin {SOI, APP0, DQT, frame_marker, DHT}
        before == <<<<255, SOI>>>>
                  \o build_segments(SelectSeq(segs, IsAppCom))
                  \o <<build_segment(DQT, rebuild_dqt_payload(scaled))>>
                  \o <<build_segment(frame_marker, frame_payload)>>
                  \o build_segments(SelectSeq(segs, IsDht))
                  \o build_segments(SelectSeq(segs, IsOther))
    IN  IF scan_payload = <<>>
        THEN [err |-> "TypeError", chunks |-> before]
        ELSE [err |-> "",
              chunks |-> before \o <<build_segment(SOS, scan_payload[1]),
                                     new_scan,
                                     <<255, EOI>>>>]

RECURSIVE Flatten(_)
Flatten(chunks) == IF chunks = <<>> THEN <<>> ELSE Head(chunks) \o Flatten(Tail(chunks))

NoInput == [order |-> <<>>, scan |-> <<>>, eoi |-> FALSE, quality |-> 50, dest |-> <<>>]

\* The destination path: absent (<<>>) or a file with its bytes (<<bytes>>).
NoFile == <<>>

NoFrame == [m |-> 0, p |-> <<>>]

(***************************************************************************)
(* compressor.py: compress.  Each action is one numbered step of compress  *)
(* (one iteration, for the two loops over blocks); a step that raises sets *)
(* pc to "failed" and err to the exception.                                *)
(***************************************************************************)
RECURSIVE first_frame(_, _)
first_frame(segs, i) ==
    IF i > Len(segs) THEN [found |-> FALSE, seg |-> NoFrame]
    ELSE IF 192 <= segs[i].m /\ segs[i].m <= 207 /\ segs[i].m \notin {DHT, SOS}
    THEN [found |-> TRUE, seg |-> segs[i]]
    ELSE first_frame(segs, i + 1)

RECURSIVE parse_all_dht(_, _, _, _)
parse_all_dht(segs, i, dc, ac) ==
    IF i > Len(segs) THEN [err |-> "", dc |-> dc, ac |-> ac]
    ELSE IF segs[i].m = DHT
    THEN LET t == parse_dht(segs[i].p)
         IN  IF t.err # "" THEN [err |-> t.err, dc |-> dc, ac |-> ac]
             ELSE parse_all_dht(segs, i + 1, t.dc @@ dc, t.ac @@ ac)
    ELSE parse_all_dht(segs, i + 1, dc, ac)

\* Step 6 of compress that dequantizes with the rows of the original table
\* as stored (in scan order), without inverse_zigzag.
requantize_table_in_scan_order(syms, orig_qtable, scaled_qtable) ==
    LET coeffs == decode_ac(syms)
        qblk   == inverse_zigzag(coeffs)
        rows   == List([r \in 1..8 |-> SubSeq(orig_qtable, (r - 1) * 8 + 1, r * 8)])
        deq    == dequantize_block(qblk, rows)
        rq     == quantize_block(deq, scaled_qtable)
    IN  zigzag_order(rq)

\* Step 6 of compress for one block: the symbols are turned into
\* coefficients, requantized and encoded into the BitWriter.
requantize(syms, orig_qtable, scaled_qtable) ==
    LET coeffs == decode_ac(syms)
        qblk   == inverse_zigzag(coeffs)
        deq    == dequantize_block(qblk, inverse_zigzag(orig_qtable))
        rq     == quantize_block(deq, scaled_qtable)
    IN  zigzag_order(rq)

reencode_block(syms, orig_qtables, scaled, dc, ac, w) ==
    IF decode_ac_raises(syms) THEN [err |-> "ValueError", w |-> w]
    ELSE IF ~DictHas(orig_qtables, 0) THEN [err |-> "KeyError", w |-> w]
    ELSE IF inverse_zigzag_raises(orig_qtables.val[0]) THEN [err |-> "ValueError", w |-> w]
    ELSE encode_symbols(encode_ac(requantize(syms, orig_qtables.val[0], scaled.val[0])),
                        dc[0], ac[0], w)

Fail(e) ==
    /\ pc' = "failed"
    /\ err' = e

Parse ==
    /\ pc = "start"
    /\ LET d == parse_jpeg(infile)
       IN  /\ data' = d
           /\ IF d.err # "" THEN Fail(d.err)
              ELSE pc' = "parsed" /\ err' = err
    /\ UNCHANGED <<inp, infile, quality, dest, frame, dc_tables, ac_tables,
                   all_syms, scaled_qtables, next_blk, out_chunks, bw, br>>
    /\ UNCHANGED <<written, readBack, bpc, huffVars, quantVars, rleVars, zigVars>>

LocateFrame ==
    /\ pc = "parsed"
    /\ LET f == first_frame(data.segments, 1)
       IN  /\ frame' = f.seg
           /\ IF f.found THEN pc' = "located" /\ err' = err
              ELSE Fail("StopIteration")
    /\ UNCHANGED <<inp, infile, quality, dest, data, dc_tables, ac_tables,
                   all_syms, scaled_qtables, next_blk, out_chunks, bw, br>>
    /\ UNCHANGED <<written, readBack, bpc, huffVars, quantVars, rleVars, zigVars>>

ParseDht ==
    /\ pc = "located"
    /\ LET t == parse_all_dht(data.segments, 1, <<>>, <<>>)
       IN  /\ dc_tables' = t.dc
           /\ ac_tables' = t.ac
           /\ IF t.err # "" THEN Fail(t.err) /\ br' = br
              ELSE /\ pc' = "decode"
                   /\ err' = err
                   /\ br' = BitReader(data.scan_data)
    /\ UNCHANGED <<inp, infile, quality, dest, data, frame,
                   all_syms, scaled_qtables, next_blk, out_chunks, bw>>
    /\ UNCHANGED <<written, readBack, bpc, huffVars, quantVars, rleVars, zigVars>>

DecodeBlock ==
    /\ pc = "decode"
    /\ IF 0 \notin DOMAIN dc_tables \/ 0 \notin DOMAIN ac_tables
       THEN Fail("KeyError") /\ UNCHANGED <<br, all_syms>>
       ELSE LET d == decode_symbols(br, dc_tables[0], ac_tables[0])
            IN  /\ br' = d.r
                /\ IF d.err = ""
                   THEN /\ all_syms' = Append(all_syms, d.symbols)
                        /\ UNCHANGED <<pc, err>>
                   ELSE IF d.err = "EOFError"
                   THEN /\ pc' = "scale"
                        /\ UNCHANGED <<all_syms, err>>
                   ELSE Fail(d.err) /\ UNCHANGED all_syms
    /\ UNCHANGED <<inp, infile, quality, dest, data, frame, dc_tables, ac_tables,
                   scaled_qtables, next_blk, out_chunks, bw>>
    /\ UNCHANGED <<written, readBack, bpc, huffVars, quantVars, rleVars, zigVars>>

ScaleQtables ==
    /\ pc = "scale"
    /\ LET b == build_scaled_qtables(data.quant_tables, quality)
       IN  /\ scaled_qtables' = b.tables
           /\ IF b.err # "" THEN Fail(b.err) /\ bw' = bw
              ELSE /\ pc' = "reencode"
                   /\ err' = err
                   /\ bw' = BitWriter
    /\ next_blk' = 1
    /\ UNCHANGED <<inp, infile, quality, dest, data, frame, dc_tables, ac_tables,
                   all_syms, out_chunks, br>>
    /\ UNCHANGED <<written, readBack, bpc, huffVars, quantVars, rleVars, zigVars>>

ReencodeBlock ==
    /\ pc = "reencode"
    /\ next_blk <= Len(all_syms)
    /\ LET e == reencode_block(all_syms[next_blk], data.quant_tables,
                               scaled_qtables, dc_tables, ac_tables, bw)
       IN  /\ bw' = e.w
           /\ IF e.err # "" THEN Fail(e.err) /\ next_blk' = next_blk
              ELSE /\ next_blk' = next_blk + 1
                   /\ UNCHANGED <<pc, err>>
    /\ UNCHANGED <<inp, infile, quality, dest, data, frame, dc_tables, ac_tables,
                   all_syms, scaled_qtables, out_chunks, br>>
    /\ UNCHANGED <<written, readBack, bpc, huffVars, quantVars, rleVars, zigVars>>

\* new_scan = bw.get_bytes() and step 7: rebuild_jpeg opens the destination
\* for writing, which creates or truncates it, and writes chunk after chunk;
\* what was written before an exception stays in the file.
Rebuild ==
    /\ pc = "reencode"
    /\ next_blk > Len(all_syms)
    /\ LET new_scan == get_bytes(bw)
           r == rebuild_jpeg(data.segments, frame.m, frame.p, data.scan_header,
                             scaled_qtables, new_scan)
       IN  /\ bw' = flush(bw)
           /\ out_chunks' = r.chunks
           /\ dest' = <<Flatten(r.chunks)>>
           /\ IF r.err # "" THEN Fail(r.err)
              ELSE pc' = "done" /\ err' = err
    /\ UNCHANGED <<inp, infile, quality, data, frame, dc_tables, ac_tables,
                   all_syms, scaled_qtables, next_blk, br>>
    /\ UNCHANGED <<written, readBack, bpc, huffVars, quantVars, rleVars, zigVars>>

Next ==
    \/ Parse
    \/ LocateFrame
    \/ ParseDht
    \/ DecodeBlock
    \/ ScaleQtables
    \/ ReencodeBlock
    \/ Rebuild

(***************************************************************************)
(* Input files of the model: a start-of-image marker, the segments of      *)
(* `order`, the entropy-coded bytes `scan` and, with `eoi`, the            *)
(* end-of-image marker.                                                    *)
(***************************************************************************)
Pad16(q) == List([k \in 1..16 |-> IF k <= Len(q) THEN q[k] ELSE 0])

SegAPP0 == [m |-> APP0, p |-> <<74>>]

SegCOM == [m |-> 254, p |-> <<67>>]

SegDQT == [m |-> DQT, p |-> <<0>> \o QTable(10, 3)]

SegSOF0 == [m |-> SOF0, p |-> <<8, 0, 8, 0, 8, 1, 1, 17, 0>>]

\* DC table 0: categories 0 and 1 with the codes 0 and 1.
SegDHTDC == [m |-> DHT, p |-> <<0>> \o Pad16(<<2>>) \o <<0, 1>>]

\* AC table 0: end-of-block and (run 0, size 1) with the codes 0 and 1.
SegDHTAC == [m |-> DHT, p |-> <<16>> \o Pad16(<<2>>) \o <<0, 1>>]

\* Arithmetic-conditioning segment (0xCC), a marker below start-of-scan.
SegDAC == [m |-> 204, p |-> <<0, 16>>]

\* Restart-interval segment (0xDD).
SegDRI == [m |-> 221, p |-> <<0, 4>>]

SegSOS == [m |-> SOS, p |-> <<1, 1, 0, 0, 63, 0>>]

FileBytes(i) ==
    <<255, SOI>> \o Flatten(build_segments(i.order)) \o i.scan
        \o (IF i.eoi THEN <<255, EOI>> ELSE <<>>)

\* Both Huffman tables in one segment.
SegDHT == [m |-> DHT, p |-> SegDHTDC.p \o SegDHTAC.p]

ShufflePools ==
    {<<SegAPP0, SegCOM, SegDQT, SegSOF0, SegDHT, SegSOS>>,
     <<SegDQT, SegSOF0, SegDHTAC, SegDHTDC, SegDRI, SegSOS>>}

BaseOrder ==
    <<SegAPP0, SegCOM, SegDQT, SegSOF0, SegDHTDC, SegDHTAC, SegDAC, SegDRI, SegSOS>>

Without(order, ms) ==
    LET Keep(x) == x.m \notin ms IN SelectSeq(order, Keep)

\* One block (DC 1, AC 1, end-of-block) and padding with 1 bits.
ScanOneBlock == <<247>>

\* Two blocks: (DC -1, end-of-block) and (DC 0, AC -1, end-of-block).
ScanTwoBlocks == <<137>>

\* One block whose first byte is 0xFF, with its stuffed 0x00: DC 1, three
\* AC 1, end-of-block.
ScanStuffed == <<255, 0, 127>>

\* One block of 64 nonzero coefficients (DC 1, 63 times AC -1), which ends
\* without an end-of-block symbol.
ScanFullBlock == <<234>> \o [k \in 1..15 |-> 170]

Scans == {<<>>, ScanOneBlock, ScanTwoBlocks, ScanStuffed, ScanFullBlock}

OldFile == <<<<79, 76, 68>>>>

PipeQualities == {0, 1, 50, 100}

\* Every order of the segments of a well-formed file.
ShuffledOrders ==
    UNION {{List([k \in 1..Len(pool) |-> pool[f[k]]]) :
               f \in Permutations(1..Len(pool))} : pool \in ShufflePools}

ShuffledInputs ==
    {[order |-> o, scan |-> ScanOneBlock, eoi |-> TRUE, quality |-> 50, dest |-> NoFile] :
        o \in ShuffledOrders}

\* The well-formed order and the orders that lack the scan header, the
\* frame header, the Huffman tables or the quantization table.
CaseOrders ==
    {BaseOrder, Without(BaseOrder, {SOS}), Without(BaseOrder, {SOF0, 204}),
     Without(BaseOrder, {DHT}), Without(BaseOrder, {DQT})}

CaseInputs ==
    {[order |-> o, scan |-> sc, eoi |-> e, quality |-> q, dest |-> d] :
        o \in CaseOrders, sc \in Scans, e \in BOOLEAN, q \in PipeQualities,
        d \in {NoFile, OldFile}}

\* AC table 0 with end-of-block and (run 7, size 10): codes 0 and 1.
SegDHTACWide == [m |-> DHT, p |-> <<16>> \o Pad16(<<2>>) \o <<0, 122>>]

\* One block: DC 0, seven zeros, amplitude 1023 at scan position 8,
\* end-of-block; the padding bits do not make a second block.
ScanWideAc == <<127, 247>>

\* A file whose scan holds a ten-bit AC amplitude, at every quality.
WideInputs ==
    {[order |-> <<SegDQT, SegSOF0, SegDHTDC, SegDHTACWide, SegSOS>>,
      scan |-> ScanWideAc, eoi |-> TRUE, quality |-> q, dest |-> NoFile] :
        q \in PipeQualities}

PipeInputs == ShuffledInputs \cup CaseInputs \cup WideInputs

(***************************************************************************)
(* Specifications.                                                         *)
(***************************************************************************)
\* A fresh BitWriter; the variables of the other components are idle.
InitBits ==
    /\ bw = BitWriter
    /\ br = BitReader(<<>>)
    /\ written = <<>>
    /\ readBack = <<>>
    /\ bpc = "writing"
    /\ hin = [lengths |-> <<>>, symbols |-> <<>>]
    /\ htable = EmptyTable
    /\ hsym = 0
    /\ hbytes = <<>>
    /\ hdec = NoDecode
    /\ hpc = "idle"
    /\ qin = <<>>
    /\ qquality = 50
    /\ qscaled = <<>>
    /\ qbuilt = NoBuilt
    /\ qpc = {}
    /\ inp = NoInput
    /\ infile = <<>>
    /\ quality = 50
    /\ dest = NoFile
    /\ pc = "idle"
    /\ err = ""
    /\ data = ParseStart
    /\ frame = NoFrame
    /\ dc_tables = <<>>
    /\ ac_tables = <<>>
    /\ all_syms = <<>>
    /\ scaled_qtables = EmptyDict
    /\ next_blk = 1
    /\ out_chunks = <<>>
    /\ rcoeffs = <<>>
    /\ rsyms = <<>>
    /\ rback = <<>>
    /\ rpc = "idle"
    /\ zin = NoZigzagInput
    /\ zmid = NoZigzag
    /\ zout = NoZigzag
    /\ zpc = "idle"

\* A valid (lengths, symbols) pair; the other components are idle.
InitHuff ==
    /\ bw = BitWriter
    /\ br = BitReader(<<>>)
    /\ written = <<>>
    /\ readBack = <<>>
    /\ bpc = "idle"
    /\ hin \in ValidTableInputs
    /\ htable = EmptyTable
    /\ hsym = 0
    /\ hbytes = <<>>
    /\ hdec = NoDecode
    /\ hpc = "input"
    /\ qin = <<>>
    /\ qquality = 50
    /\ qscaled = <<>>
    /\ qbuilt = NoBuilt
    /\ qpc = {}
    /\ inp = NoInput
    /\ infile = <<>>
    /\ quality = 50
    /\ dest = NoFile
    /\ pc = "idle"
    /\ err = ""
    /\ data = ParseStart
    /\ frame = NoFrame
    /\ dc_tables = <<>>
    /\ ac_tables = <<>>
    /\ all_syms = <<>>
    /\ scaled_qtables = EmptyDict
    /\ next_blk = 1
    /\ out_chunks = <<>>
    /\ rcoeffs = <<>>
    /\ rsyms = <<>>
    /\ rback = <<>>
    /\ rpc = "idle"
    /\ zin = NoZigzagInput
    /\ zmid = NoZigzag
    /\ zout = NoZigzag
    /\ zpc = "idle"

\* Any (lengths, symbols) pair of matching sizes; the other components are idle.
InitHuffAny ==
    /\ bw = BitWriter
    /\ br = BitReader(<<>>)
    /\ written = <<>>
    /\ readBack = <<>>
    /\ bpc = "idle"
    /\ hin \in AnyTableInputs
    /\ htable = EmptyTable
    /\ hsym = 0
    /\ hbytes = <<>>
    /\ hdec = NoDecode
    /\ hpc = "input"
    /\ qin = <<>>
    /\ qquality = 50
    /\ qscaled = <<>>
    /\ qbuilt = NoBuilt
    /\ qpc = {}
    /\ inp = NoInput
    /\ infile = <<>>
    /\ quality = 50
    /\ dest = NoFile
    /\ pc = "idle"
    /\ err = ""
    /\ data = ParseStart
    /\ frame = NoFrame
    /\ dc_tables = <<>>
    /\ ac_tables = <<>>
    /\ all_syms = <<>>
    /\ scaled_qtables = EmptyDict
    /\ next_blk = 1
    /\ out_chunks = <<>>
    /\ rcoeffs = <<>>
    /\ rsyms = <<>>
    /\ rback = <<>>
    /\ rpc = "idle"
    /\ zin = NoZigzagInput
    /\ zmid = NoZigzag
    /\ zout = NoZigzag
    /\ zpc = "idle"

\* A quantization table and a quality; the other components are idle.
InitQuant ==
    /\ bw = BitWriter
    /\ br = BitReader(<<>>)
    /\ written = <<>>
    /\ readBack = <<>>
    /\ bpc = "idle"
    /\ hin = [lengths |-> <<>>, symbols |-> <<>>]
    /\ htable = EmptyTable
    /\ hsym = 0
    /\ hbytes = <<>>
    /\ hdec = NoDecode
    /\ hpc = "idle"
    /\ qin \in QTableInputs
    /\ qquality \in Qualities
    /\ qscaled = <<>>
    /\ qbuilt = NoBuilt
    /\ qpc = {"input"}
    /\ inp = NoInput
    /\ infile = <<>>
    /\ quality = 50
    /\ dest = NoFile
    /\ pc = "idle"
    /\ err = ""
    /\ data = ParseStart
    /\ frame = NoFrame
    /\ dc_tables = <<>>
    /\ ac_tables = <<>>
    /\ all_syms = <<>>
    /\ scaled_qtables = EmptyDict
    /\ next_blk = 1
    /\ out_chunks = <<>>
    /\ rcoeffs = <<>>
    /\ rsyms = <<>>
    /\ rback = <<>>
    /\ rpc = "idle"
    /\ zin = NoZigzagInput
    /\ zmid = NoZigzag
    /\ zout = NoZigzag
    /\ zpc = "idle"

\* A list of 64 coefficients; the other components are idle.
InitRle ==
    /\ bw = BitWriter
    /\ br = BitReader(<<>>)
    /\ written = <<>>
    /\ readBack = <<>>
    /\ bpc = "idle"
    /\ hin = [lengths |-> <<>>, symbols |-> <<>>]
    /\ htable = EmptyTable
    /\ hsym = 0
    /\ hbytes = <<>>
    /\ hdec = NoDecode
    /\ hpc = "idle"
    /\ qin = <<>>
    /\ qquality = 50
    /\ qscaled = <<>>
    /\ qbuilt = NoBuilt
    /\ qpc = {}
    /\ inp = NoInput
    /\ infile = <<>>
    /\ quality = 50
    /\ dest = NoFile
    /\ pc = "idle"
    /\ err = ""
    /\ data = ParseStart
    /\ frame = NoFrame
    /\ dc_tables = <<>>
    /\ ac_tables = <<>>
    /\ all_syms = <<>>
    /\ scaled_qtables = EmptyDict
    /\ next_blk = 1
    /\ out_chunks = <<>>
    /\ rcoeffs \in RleInputs
    /\ rsyms = <<>>
    /\ rback = <<>>
    /\ rpc = "input"
    /\ zin = NoZigzagInput
    /\ zmid = NoZigzag
    /\ zout = NoZigzag
    /\ zpc = "idle"

\* A block or a list; the other components are idle.
InitZigzag ==
    /\ bw = BitWriter
    /\ br = BitReader(<<>>)
    /\ written = <<>>
    /\ readBack = <<>>
    /\ bpc = "idle"
    /\ hin = [lengths |-> <<>>, symbols |-> <<>>]
    /\ htable = EmptyTable
    /\ hsym = 0
    /\ hbytes = <<>>
    /\ hdec = NoDecode
    /\ hpc = "idle"
    /\ qin = <<>>
    /\ qquality = 50
    /\ qscaled = <<>>
    /\ qbuilt = NoBuilt
    /\ qpc = {}
    /\ inp = NoInput
    /\ infile = <<>>
    /\ quality = 50
    /\ dest = NoFile
    /\ pc = "idle"
    /\ err = ""
    /\ data = ParseStart
    /\ frame = NoFrame
    /\ dc_tables = <<>>
    /\ ac_tables = <<>>
    /\ all_syms = <<>>
    /\ scaled_qtables = EmptyDict
    /\ next_blk = 1
    /\ out_chunks = <<>>
    /\ rcoeffs = <<>>
    /\ rsyms = <<>>
    /\ rback = <<>>
    /\ rpc = "idle"
    /\ zin \in ZigInputs
    /\ zmid = NoZigzag
    /\ zout = NoZigzag
    /\ zpc = "input"

\* compress(input_path, output_path, quality) is called on an input file.
Init ==
    /\ bw = BitWriter
    /\ br = BitReader(<<>>)
    /\ written = <<>>
    /\ readBack = <<>>
    /\ bpc = "idle"
    /\ hin = [lengths |-> <<>>, symbols |-> <<>>]
    /\ htable = EmptyTable
    /\ hsym = 0
    /\ hbytes = <<>>
    /\ hdec = NoDecode
    /\ hpc = "idle"
    /\ qin = <<>>
    /\ qquality = 50
    /\ qscaled = <<>>
    /\ qbuilt = NoBuilt
    /\ qpc = {}
    /\ inp \in PipeInputs
    /\ infile = FileBytes(inp)
    /\ quality = inp.quality
    /\ dest = inp.dest
    /\ pc = "start"
    /\ err = ""
    /\ data = ParseStart
    /\ frame = NoFrame
    /\ dc_tables = <<>>
    /\ ac_tables = <<>>
    /\ all_syms = <<>>
    /\ scaled_qtables = EmptyDict
    /\ next_blk = 1
    /\ out_chunks = <<>>
    /\ rcoeffs = <<>>
    /\ rsyms = <<>>
    /\ rback = <<>>
    /\ rpc = "idle"
    /\ zin = NoZigzagInput
    /\ zmid = NoZigzag
    /\ zout = NoZigzag
    /\ zpc = "idle"

Spec == Init /\ [][Next]_vars

SpecBits == InitBits /\ [][NextBits]_vars

SpecHuff == InitHuff /\ [][NextHuff]_vars

SpecHuffAny == InitHuffAny /\ [][NextHuff]_vars

SpecQuant == InitQuant /\ [][NextQuant]_vars

SpecRle == InitRle /\ [][NextRle]_vars

SpecZigzag == InitZigzag /\ [][NextZigzag]_vars

\* C2: every value read back by read_bits equals the value written with the
\* same width at the same position, and the reader never runs out of bytes
\* before all written fields are read, whatever 0xFF bytes (stuffing) or
\* partial last byte (padding) the writes produce.
BitstreamRoundTrip ==
    /\ bpc # "eof"
    /\ \A i \in 1..Len(readBack) : readBack[i] = written[i][2]

RECURSIVE TotalBits(_)
TotalBits(ws) == IF ws = <<>> THEN 0 ELSE Head(ws)[1] + TotalBits(Tail(ws))

HasStuffing(bytes) == \E i \in 1..(Len(bytes) - 1) : bytes[i] = 255 /\ bytes[i + 1] = 0

BitstreamRoundTripWitness ==
    /\ bpc = "reading"
    /\ Len(readBack) = Len(written)
    /\ Len(written) >= 2
    /\ HasStuffing(br.data)
    /\ TotalBits(written) % 8 # 0

\* C1 (as stated): once a symbol of the table has been encoded, written and
\* decoded back, the decoded symbol is the encoded one and decoding raised
\* no error.
HuffmanRoundTrip ==
    hpc = "decoded" => (hdec.err = "" /\ hdec.sym = hsym)

\* C8 (as stated): at quality 1 every entry of the table computed by
\* scale_table, and of the table computed by build_scaled_qtables, is 255.
Quality1AllEntries255 ==
    qquality = 1 =>
        /\ "scale_table" \in qpc =>
               \A r \in 1..8 : \A c \in 1..8 : qscaled[r][c] = 255
        /\ "build_scaled_qtables" \in qpc =>
               /\ qbuilt.err = ""
               /\ \A r \in 1..8 : \A c \in 1..8 : qbuilt.tables.val[0][r][c] = 255

\* C8 (amended): at quality 1 an entry with original value v becomes
\* min(255, 50 * v): 255 when v >= 6, and 50 * v (50..250) when v is 1..5;
\* for scale_table and for build_scaled_qtables alike.
Quality1Scaling ==
    qquality = 1 =>
        LET mat == inverse_zigzag(qin)
        IN  /\ "scale_table" \in qpc =>
                   \A r \in 1..8 : \A c \in 1..8 :
                       qscaled[r][c] = Min2(255, 50 * mat[r][c])
            /\ "build_scaled_qtables" \in qpc =>
                   /\ qbuilt.err = ""
                   /\ \A r \in 1..8 : \A c \in 1..8 :
                          qbuilt.tables.val[0][r][c] = Min2(255, 50 * mat[r][c])

Quality1ScalingWitness ==
    /\ qquality = 1
    /\ qpc = {"input", "scale_table", "build_scaled_qtables"}
    /\ \E i \in 1..64 : qin[i] <= 5
    /\ \E i \in 1..64 : qin[i] >= 6
    /\ \E r \in 1..8 : \E c \in 1..8 : qscaled[r][c] < 255
    /\ \E r \in 1..8 : \E c \in 1..8 : qbuilt.tables.val[0][r][c] = 255

ClampQuality(q) == Max2(1, Min2(100, q))

SpecScale(v, qual) == Max2(1, Min2(255, scaled_value(v, ClampQuality(qual))))

\* C9 (as stated): for every integer quality, build_scaled_qtables does not
\* fail and each entry of its table is clamp(int((orig * factor + 50) / 100),
\* 1, 255) with factor computed from the quality clamped to 1..100.
ScaledTableMatchesScaleOperator ==
    "build_scaled_qtables" \in qpc =>
        LET mat == inverse_zigzag(qin)
        IN  /\ qbuilt.err = ""
            /\ \A r \in 1..8 : \A c \in 1..8 :
                   qbuilt.tables.val[0][r][c] = SpecScale(mat[r][c], qquality)

(***************************************************************************)
(* Claims about compress and rebuild_jpeg.                                 *)
(***************************************************************************)
\* C3: whenever compress fails, at any step, the destination path is as it
\* was before the call: not created, not truncated, not written to.
NoPartialOutputOnFailure == pc = "failed" => dest = inp.dest

IsAppComMarker(m) == (224 <= m /\ m <= 239) \/ m = 254

\* The place of the i-th write of rebuild_jpeg in the order of the claim:
\* the first, the last and the one before the last write are start-of-image,
\* end-of-image and the entropy bytes; a segment is placed by its marker.
ChunkRank(i) ==
    LET n == Len(out_chunks)
        m == out_chunks[i][2]
    IN  IF i = 1 THEN 0
        ELSE IF i = n THEN 8
        ELSE IF i = n - 1 THEN 7
        ELSE IF IsAppComMarker(m) THEN 1
        ELSE IF m = DQT THEN 2
        ELSE IF m = frame.m THEN 3
        ELSE IF m = DHT THEN 4
        ELSE IF m = SOS THEN 6
        ELSE 5

ChunksOfRank(k) == {i \in 1..Len(out_chunks) : ChunkRank(i) = k}

SegmentsWith(Keep(_)) == build_segments(SelectSeq(data.segments, Keep))

EoiPositions(bytes) ==
    {i \in 1..(Len(bytes) - 1) : bytes[i] = 255 /\ bytes[i + 1] = EOI}

\* C5: in the file produced by parse_jpeg and rebuild_jpeg the bytes
\* 0xFF 0xD9 occur exactly once, as the final two bytes, and the parser's
\* end-of-image entry is never written as a length-framed segment.
EoiOnlyAtEnd ==
    pc = "done" =>
        /\ EoiPositions(dest[1]) = {Len(dest[1]) - 1}
        /\ \A i \in 1..(Len(out_chunks) - 1) :
               out_chunks[i] # build_segment(EOI, <<>>)

\* C6: for an input whose scan header is followed by entropy bytes with a
\* stuffed 0xFF 0x00 pair and by end-of-image, parse_jpeg returns exactly
\* those entropy bytes as scan_data and records no segment for the pair.
ScanDataIntact ==
    (/\ pc = "parsed"
     /\ inp.order # <<>>
     /\ inp.order[Len(inp.order)].m = SOS
     /\ inp.eoi)
        => /\ data.scan_data = inp.scan
           /\ \A i \in 1..Len(data.segments) : data.segments[i].m # 0

\* C7: for a quality in 1..100 and an input whose scan decoded with its own
\* tables 0, no DC category and no AC run/size byte that encode_symbols looks
\* up for a requantized block is missing from those tables: the re-encoding
\* loop (the step between the scaling of the tables, which stored table 0,
\* and the writing of the output) never ends in a KeyError.
ReencodeLookupNeverFails ==
    ~(/\ pc = "failed"
      /\ err = "KeyError"
      /\ quality \in 1..100
      /\ DictHas(scaled_qtables, 0)
      /\ out_chunks = <<>>)

FirstSos(segs) ==
    LET hits == {i \in 1..Len(segs) : segs[i].m = SOS}
    IN  IF hits = {} THEN Len(segs) + 1
        ELSE CHOOSE i \in hits : \A j \in hits : i <= j

\* C10: every segment that precedes the scan header in the input and whose
\* marker is not application, comment, quantization-table, Huffman-table,
\* the located frame header or start-of-scan is written exactly once before
\* the scan header, marker and payload unchanged.
OtherSegmentsPassThrough ==
    pc = "done" =>
        \A i \in 1..(FirstSos(data.segments) - 1) :
            LET seg == data.segments[i]
            IN  (/\ ~IsAppComMarker(seg.m)
                 /\ seg.m \notin {DQT, DHT, frame.m, SOS})
                    => Cardinality({j \in 2..(Len(out_chunks) - 3) :
                           out_chunks[j] = build_segment(seg.m, seg.p)}) = 1

(***************************************************************************)
(* Claims about rle.py and zigzag.py.                                      *)
(***************************************************************************)
\* C11: for every list of 64 integer coefficients (all zero, without a
\* zero, ending in a nonzero value, with zero runs longer than 15),
\* decode_ac(encode_ac(coeffs)) = coeffs.
RleRoundTrip == rpc = "decoded" => rback = rcoeffs

\* A list with a zero run longer than 15 between two nonzero coefficients
\* and a nonzero last coefficient has been encoded, with a zero-run marker,
\* and decoded.
RleRoundTripWitness ==
    /\ rpc = "decoded"
    /\ rcoeffs[3] # 0
    /\ \A k \in 4..51 : rcoeffs[k] = 0
    /\ rcoeffs[52] # 0
    /\ rcoeffs[64] # 0
    /\ \E i \in 1..Len(rsyms) : rsyms[i].tag = "ZRL"

IsBlock8x8(v) == Len(v) = 8 /\ \A rw \in 1..8 : Len(v[rw]) = 8

RightShape(i) == IF i.kind = "block" THEN IsBlock8x8(i.val) ELSE Len(i.val) = 64

\* C12: inverse_zigzag(zigzag_order(M)) = M for every 8x8 matrix M and
\* zigzag_order(inverse_zigzag(S)) = S for every list S of 64 elements; a
\* block that is not 8x8 and a list that is not of length 64 are rejected
\* with an error.
ZigzagInverseLaw ==
    /\ zpc \in {"first", "second"} =>
           (zmid.err = "" <=> RightShape(zin))
    /\ zpc \in {"first", "second"} /\ ~RightShape(zin) =>
           zmid.err = "ValueError" /\ zmid.val = <<>>
    /\ zpc = "second" => zout = [err |-> "", val |-> zin.val]

\* A block of 64 different cells has gone through zigzag_order, which moved
\* cells, and inverse_zigzag.
ZigzagInverseLawWitness ==
    /\ zpc = "second"
    /\ zin.kind = "block"
    /\ zin.val[1][2] # zin.val[2][1]
    /\ zmid.val[3] # zin.val[1][3]
    /\ zout.err = ""

(***************************************************************************)
(* Claims about the block loops of compress.                               *)
(***************************************************************************)
\* The number of bits a BitReader has gone past.
BitPos(r) == 8 * r.bytepos + r.bitpos

Exhausted(r) == r.bytepos >= Len(r.data)

\* The blocks decode_symbols returns from r on, up to its first exception.
RECURSIVE CompleteBlocks(_, _)
CompleteBlocks(r, fuel) ==
    LET d == decode_symbols(r, dc_tables[0], ac_tables[0])
    IN  IF fuel = 0 \/ d.err # "" THEN <<>>
        ELSE <<d.symbols>> \o CompleteBlocks(d.r, fuel - 1)

\* The BitWriter after the first n blocks of all_syms were re-encoded.
RECURSIVE ReencodedPrefix(_)
ReencodedPrefix(n) ==
    IF n = 0 THEN BitWriter
    ELSE reencode_block(all_syms[n], data.quant_tables, scaled_qtables,
                        dc_tables, ac_tables, ReencodedPrefix(n - 1)).w

DecodeLoopState ==
    /\ err # "EOFError"
    /\ pc = "decode" =>
           /\ Len(all_syms) <= BitPos(br)
           /\ BitPos(br) <= 8 * Len(data.scan_data)
    /\ pc \in {"scale", "reencode", "done"} =>
           /\ Exhausted(br)
           /\ all_syms = CompleteBlocks(BitReader(data.scan_data),
                                        8 * Len(data.scan_data))
    /\ pc = "reencode" =>
           /\ next_blk <= Len(all_syms) + 1
           /\ bw = ReencodedPrefix(next_blk - 1)
    /\ pc = "done" =>
           out_chunks[Len(out_chunks) - 1] = get_bytes(ReencodedPrefix(Len(all_syms)))

DecodeLoopStep ==
    DecodeBlock =>
        /\ pc' = "decode" =>
               /\ BitPos(br') > BitPos(br)
               /\ Len(all_syms') = Len(all_syms) + 1
               /\ SubSeq(all_syms', 1, Len(all_syms)) = all_syms
        /\ (/\ 0 \in DOMAIN dc_tables
            /\ 0 \in DOMAIN ac_tables
            /\ Exhausted(br)) => (pc' = "scale" /\ all_syms' = all_syms)
        /\ pc' = "scale" => (Exhausted(br') /\ all_syms' = all_syms)

\* C13: the loop of compress that calls decode_symbols terminates, since a
\* call that returns has moved the reader on by at least one bit of the
\* finite data; when the reader has run out of bytes the loop ends without
\* failing the operation, and the blocks then re-encoded are exactly the
\* completely decoded blocks, in decode order.
BlockDecodingTerminates == []DecodeLoopState /\ [][DecodeLoopStep]_vars

\* Two blocks were decoded, the bits left after them began a third block
\* that the end of the data cut short, and the two blocks were re-encoded
\* and written.
BlockDecodingTerminatesWitness ==
    /\ pc = "done"
    /\ Len(all_syms) = 2
    /\ BitPos(decode_symbols(BitReader(data.scan_data), dc_tables[0], ac_tables[0]).r) < 7
    /\ Len(out_chunks[Len(out_chunks) - 1]) > 0

(***************************************************************************)
(* Claims about HuffmanTable.                                              *)
(***************************************************************************)
\* The code c1 of l1 bits is a prefix of the code c2 of l2 bits.
IsPrefix(c1, l1, c2, l2) == l1 <= l2 /\ Shr(c2, l2 - l1) = c1

\* No code of the table is a prefix of the code of another symbol, and
\* every code value fits in its length.
PrefixFree(t) ==
    /\ \A s1 \in DOMAIN t.codes : t.codes[s1][1] < 2 ^ t.codes[s1][2]
    /\ \A s1, s2 \in DOMAIN t.codes :
           s1 # s2 => ~IsPrefix(t.codes[s1][1], t.codes[s1][2],
                                t.codes[s2][1], t.codes[s2][2])

\* sum of count[L] * 2^(-L) <= 1, scaled by 2^16.
RECURSIVE KraftSum16(_, _)
KraftSum16(lengths, L) ==
    IF L = 0 THEN 0 ELSE lengths[L] * (2 ^ (16 - L)) + KraftSum16(lengths, L - 1)

KraftOk(lengths) == KraftSum16(lengths, 16) <= 2 ^ 16

\* C14 (as stated): for every HuffmanTable built from 16 length counts and
\* a symbol list whose size is the sum of the counts, no code is a prefix
\* of another code and every code value fits in its length.
CodesPrefixFree == hpc # "input" => PrefixFree(htable)

\* C14 (amended): the same, for length counts that satisfy the Kraft
\* inequality, sum over L of count[L] / 2^L <= 1.
CodesPrefixFreeUnderKraft ==
    (hpc # "input" /\ KraftOk(hin.lengths)) => PrefixFree(htable)

\* A table with codes of three different lengths was built from counts that
\* satisfy the Kraft inequality with equality.
CodesPrefixFreeWitness ==
    /\ hpc = "built"
    /\ KraftSum16(hin.lengths, 16) = 2 ^ 16
    /\ Cardinality({htable.codes[x][2] : x \in DOMAIN htable.codes}) = 3

\* C15: HuffmanTable.decode returns a symbol only when the number of bits
\* it has read is that symbol's code length, so that the code of a symbol
\* s1 of the table, written alone, decodes to s1 with exactly its code
\* length consumed (the claim for k = 1), and a proper prefix of a longer
\* code is never reported as a match.
DecodeConsumesOneCode ==
    (hpc = "decoded" /\ hdec.err = "") =>
        /\ BitPos(hdec.r) = htable.codes[hdec.sym][2]
        /\ BitPos(hdec.r) = htable.codes[hsym][2]
        /\ hdec.sym = hsym


\* The symbols step 6 of compress hands to encode_symbols for block i.
NewSyms(i) ==
    encode_ac(requantize(all_syms[i], data.quant_tables.val[0], scaled_qtables.val[0]))

\* C16: every AC symbol that encode_ac makes from the requantized block the
\* re-encoding loop is about to encode has its run in 0..15 and its size in
\* 0..15, so that (run << 4) | size is a byte with the run in its high
\* nibble and the size in its low nibble.
AcSymbolsInAlphabet ==
    (/\ pc = "reencode"
     /\ next_blk <= Len(all_syms)
     /\ ~decode_ac_raises(all_syms[next_blk])
     /\ DictHas(data.quant_tables, 0)
     /\ ~inverse_zigzag_raises(data.quant_tables.val[0]))
        => \A k \in 1..Len(NewSyms(next_blk)) :
               LET sym == NewSyms(next_blk)[k]
               IN  sym.tag = "AC" =>
                       /\ sym.run \in 0..15
                       /\ sym.size \in 0..15
                       /\ BitOr(Shl(sym.run, 4), sym.size) <= 255
                       /\ Shr(BitOr(Shl(sym.run, 4), sym.size), 4) = sym.run
                       /\ BitOr(Shl(sym.run, 4), sym.size) % 16 = sym.size

\* Quantization table 0 of the input is stored with 8-bit entries, all >= 1.
EightBitTable ==
    /\ \A k \in 1..Len(inp.order) :
           inp.order[k].m = DQT => Shr(inp.order[k].p[1], 4) = 0
    /\ DictHas(data.quant_tables, 0)
    /\ Len(data.quant_tables.val[0]) = 64
    /\ \A k \in 1..64 : data.quant_tables.val[0][k] \in 1..255

\* C17: at quality 50, with an 8-bit quantization table 0 whose entries are
\* all >= 1, the scaled table is the original table, the file written holds
\* a quantization-table segment with the original entries, and for every
\* decoded block the coefficients that are re-encoded (dequantized with the
\* original table, quantized with the scaled one) are the decoded ones.
QualityFiftyIsIdentity ==
    (quality = 50 /\ pc \in {"reencode", "done"} /\ EightBitTable) =>
        /\ zigzag_order(scaled_qtables.val[0]) = data.quant_tables.val[0]
        /\ \A i \in 1..Len(all_syms) :
               ~decode_ac_raises(all_syms[i]) =>
                   requantize(all_syms[i], data.quant_tables.val[0],
                              scaled_qtables.val[0]) = decode_ac(all_syms[i])
        /\ (pc = "done" /\ data.quant_tables.keys = <<0>>) =>
               \E k \in 1..Len(out_chunks) :
                   out_chunks[k] = build_segment(DQT, <<0>> \o data.quant_tables.val[0])

\* A file transcoded at quality 50 whose block has a ten-bit amplitude at
\* scan position 8, where the table entry differs from its neighbours'.
QualityFiftyIsIdentityWitness ==
    /\ quality = 50
    /\ pc = "done"
    /\ EightBitTable
    /\ Len(all_syms) = 1
    /\ ~decode_ac_raises(all_syms[1])
    /\ decode_ac(all_syms[1])[9] = 1023
    /\ data.quant_tables.val[0][9] = 34

\* The diagonal traversal of an 8x8 block: the row-major index of the cell
\* at each scan position.
JpegDiagonalScan ==
    << 0,  1,  8, 16,  9,  2,  3, 10,
      17, 24, 32, 25, 18, 11,  4,  5,
      12, 19, 26, 33, 40, 48, 41, 34,
      27, 20, 13,  6,  7, 14, 21, 28,
      35, 42, 49, 56, 57, 50, 43, 36,
      29, 22, 15, 23, 30, 37, 44, 51,
      58, 59, 52, 45, 38, 31, 39, 46,
      53, 60, 61, 54, 47, 55, 62, 63 >>

\* C18: ZIGZAG_ORDER is a permutation of 0..63 and maps a scan position to
\* a row-major index: element k of zigzag_order(M) is the cell of M that
\* the diagonal traversal visits at position k (row-major indices 0, 1, 8,
\* 16, 9, 2, 3, 10, ...).
ZigzagIsDiagonalScan ==
    (zpc = "first" /\ zin.kind = "block" /\ zmid.err = "") =>
        /\ {ZIGZAG_ORDER[k] : k \in 1..64} = 0..63
        /\ \A k \in 1..64 :
               zmid.val[k] = zin.val[(JpegDiagonalScan[k] \div 8) + 1]
                                    [(JpegDiagonalScan[k] % 8) + 1]

=============================================================================
